---- MODULE Spec2Model ----
(***************************************************************************)
(* A model of docchat (src/main.py): the DocumentChatbot class             *)
(* (load_documents, answer_question), check_ollama and main()'s chat loop. *)
(*                                                                         *)
(* Library calls (requests, the loaders, Chroma, RetrievalQA, prompt) are  *)
(* the environment: each returns or raises, chosen nondeterministically.   *)
(* Python's exception matching is modelled by class: KeyboardInterrupt is  *)
(* not a subclass of Exception.  Console prints of status lines are taken  *)
(* to succeed; rendering the answer panels (lines 201-211) may raise.      *)
(***************************************************************************)
EXTENDS Integers, Sequences, FiniteSets, TLC

VARIABLES
    pc,          \* position of main(): check, construct, load, awaiting,
                 \* processing, displaying, terminated (api: no main running)
    folder,      \* the file system under DOCS_PATH: [exists, entries]
    called,      \* the functions invoked so far in this run
    vector_db,   \* self.vector_db: Unset (no attribute yet), None, or chunks
    documents,   \* load_documents' local list, as it stood when the call ended
    user_input,  \* main's local user_input (a sequence of characters)
    answer,      \* main's local answer
    sources,     \* main's local sources
    console,     \* what the last step wrote to the console
    env,         \* what the environment did in the last step
    raised,      \* what the last library/method call of the step raised
    escaped,     \* the exception that left main() unhandled, if any
    errors       \* number of failures the chat loop has survived

vars == <<pc, folder, called, vector_db, documents, user_input, answer,
          sources, console, env, raised, escaped, errors>>

(* ------------------------------ bounds -------------------------------- *)
MaxDocs == 2
MaxRetrieved == 2
MaxErrors == 2

(* ---------------------------- constants ------------------------------- *)
PreviewLen == 250
RetrieverK == 10
HttpOk == 200

Min(a, b) == IF a < b THEN a ELSE b

(* ------------------------- strings and case --------------------------- *)
UpperChars == <<"A","B","C","D","E","F","G","H","I","J","K","L","M",
                "N","O","P","Q","R","S","T","U","V","W","X","Y","Z">>
LowerChars == <<"a","b","c","d","e","f","g","h","i","j","k","l","m",
                "n","o","p","q","r","s","t","u","v","w","x","y","z">>

LowerChar(c) ==
    IF \E i \in 1..Len(UpperChars) : UpperChars[i] = c
    THEN LowerChars[CHOOSE i \in 1..Len(UpperChars) : UpperChars[i] = c]
    ELSE c

\* str.lower()
lower(s) == [i \in 1..Len(s) |-> LowerChar(s[i])]

(* ---------------------------- exceptions ------------------------------ *)
Exc(type, msg) == [type |-> type, msg |-> msg]
NoExc == Exc("None", "")
KeyboardInterrupt == Exc("KeyboardInterrupt", "")

\* isinstance(e, Exception): every class used here but KeyboardInterrupt
IsException(e) == e.type \notin {"None", "KeyboardInterrupt"}

Msg(kind, arg) == [kind |-> kind, arg |-> arg]

(* --------------------------- check_ollama ----------------------------- *)
\* what requests.get('http://localhost:11434', timeout=5) does
HealthOutcomes ==
    { [raises |-> NoExc, status |-> 200],
      [raises |-> NoExc, status |-> 503],
      [raises |-> Exc("ConnectionError", "refused"), status |-> 0],
      [raises |-> Exc("Timeout", "timed out"), status |-> 0],
      [raises |-> KeyboardInterrupt, status |-> 0] }

\* a bare except: catches everything, KeyboardInterrupt included
CheckCatches(e) == e.type # "None"

\* mutant: the status code is never looked at
check_ollama_AnyStatus(outcome) == ~CheckCatches(outcome.raises)

check_ollama(outcome) ==
    IF CheckCatches(outcome.raises) THEN FALSE
    ELSE outcome.status = HttpOk

(* ----------------------- DocumentChatbot.__init__ --------------------- *)
\* self.vector_db: the attribute does not exist yet, is None, or is a Chroma
\* store holding chunks
Unset == [kind |-> "Unset", chunks |-> <<>>]
None == [kind |-> "None", chunks |-> <<>>]
Chroma(chunks) == [kind |-> "Chroma", chunks |-> chunks]

\* what building the embeddings, the LLM client and the splitter does
InitOutcomes == { NoExc, Exc("OSError", "model unavailable"), KeyboardInterrupt }

\* except Exception (line 86): report and re-raise
InitCatches(e) == IsException(e)

\* DocumentChatbot(): [raised, vector_db, console]
DocumentChatbot(outcome) ==
    IF outcome = NoExc
    THEN [raised |-> NoExc, vector_db |-> None,
          console |-> <<Msg("models_loaded", "")>>]
    ELSE [raised |-> outcome, vector_db |-> Unset,
          console |-> IF InitCatches(outcome)
                      THEN <<Msg("initialization_error", outcome.msg)>>
                      ELSE <<>>]

(* --------------------------- the documents ---------------------------- *)
DOCS_PATH == "./documents"

Chars(n) == [i \in 1..n |-> "x"]

\* the files that may lie in the folder, in the order glob('*') yields
\* them; suffix is Path.suffix
Files ==
    << [name |-> "report.pdf", suffix |-> <<".", "p", "d", "f">>],
       [name |-> "SCAN.PDF",   suffix |-> <<".", "P", "D", "F">>],
       [name |-> "empty.txt",  suffix |-> <<".", "t", "x", "t">>] >>

\* what a loader does with a file: raises, or returns ndocs documents
LoadResults ==
    { [raises |-> NoExc, ndocs |-> n] : n \in 0..MaxDocs }
    \cup { [raises |-> Exc("OSError", "unreadable"), ndocs |-> 0],
           [raises |-> KeyboardInterrupt, ndocs |-> 0] }

\* the text of the i-th document of a file: an empty text file yields blank
\* documents; otherwise a long page, a short one, then one of exactly 250
PageContent(file, i) ==
    IF file.name = "empty.txt" THEN Chars(0)
    ELSE CASE i = 1 -> Chars(PreviewLen + 1)
           [] i = 2 -> Chars(3)
           [] OTHER -> Chars(PreviewLen)

\* loader.load(): the documents, each with its source path as metadata
LoaderLoad(entry) ==
    [i \in 1..entry.result.ndocs |->
        [page_content |-> PageContent(entry.file, i),
         metadata |-> [source |-> <<DOCS_PATH, entry.file.name>>, page |-> i]]]

\* every folder content: the directory is missing, or each file is absent
\* or present with what its loader will do
Absent == [raises |-> NoExc, ndocs |-> -1]

Present(entry) == entry.result # Absent

Folders ==
    { [exists |-> FALSE, entries |-> <<>>] }
    \cup { [exists |-> TRUE,
            entries |-> SelectSeq([i \in 1..Len(Files) |->
                                     [file |-> Files[i], result |-> p[i]]],
                                  Present)] :
             p \in [1..Len(Files) -> LoadResults \cup {Absent}] }

(* ------------------- DocumentChatbot.load_documents ------------------- *)
Loaders == { <<".", "p", "d", "f">>, <<".", "d", "o", "c", "x">>,
             <<".", "x", "l", "s", "x">>, <<".", "d", "o", "c">>,
             <<".", "x", "l", "s">> }

\* mutant: no per-file handler
LoadFileCatches_Nothing(e) == FALSE

\* except Exception (line 115): report the file and go on
LoadFileCatches(e) == IsException(e)

\* one iteration of the for loop (lines 105-116) on the running state
\* [documents, console, raised]
LoadOneFile(acc, entry) ==
    LET ext == lower(entry.file.suffix)
        e == entry.result.raises
    IN  IF e = NoExc
        THEN [acc EXCEPT
                !.documents = @ \o LoaderLoad(entry),
                !.console = Append(@, Msg(IF ext \in Loaders THEN "file_ok"
                                          ELSE "file_generic", entry.file.name))]
        ELSE IF LoadFileCatches(e)
        THEN [acc EXCEPT !.console = Append(@, Msg("file_error", entry.file.name))]
        ELSE [acc EXCEPT !.raised = e]

\* the for loop (lines 103-116): stops only when an exception leaves it
RECURSIVE LoadFiles(_, _)
LoadFiles(acc, entries) ==
    IF entries = <<>> \/ acc.raised # NoExc THEN acc
    ELSE LoadFiles(LoadOneFile(acc, Head(entries)), Tail(entries))

\* RecursiveCharacterTextSplitter(chunk_size=1000, chunk_overlap=200):
\* an empty text gives no chunk, a text within chunk_size gives one chunk,
\* a longer unbroken text is cut into overlapping pieces
ChunkSize == 1000
ChunkOverlap == 200

RECURSIVE SplitText(_)
SplitText(text) ==
    IF Len(text) = 0 THEN <<>>
    ELSE IF Len(text) <= ChunkSize THEN <<text>>
    ELSE <<SubSeq(text, 1, ChunkSize)>>
         \o SplitText(SubSeq(text, ChunkSize - ChunkOverlap + 1, Len(text)))

RECURSIVE split_documents(_)
split_documents(docs) ==
    IF docs = <<>> THEN <<>>
    ELSE LET d == Head(docs)
             pieces == SplitText(d.page_content)
         IN  [i \in 1..Len(pieces) |->
                 [page_content |-> pieces[i], metadata |-> d.metadata]]
             \o split_documents(Tail(docs))

\* what Chroma.from_documents does
IndexOutcomes == { NoExc, Exc("ChromaError", "indexing failed"), KeyboardInterrupt }

\* mutant: the empty-corpus check is missing
NoDocuments_Never(docs) == FALSE

\* if not documents (line 118)
NoDocuments(docs) == Len(docs) = 0

\* load_documents(folder_path): [raised, vector_db, documents, console]
load_documents(vdb, dir, index) ==
    IF ~dir.exists
    THEN [raised |-> Exc("ValueError", "Folder not found"), vector_db |-> vdb,
          documents |-> <<>>, console |-> <<>>]
    ELSE LET loop == LoadFiles([documents |-> <<>>, console |-> <<>>,
                                raised |-> NoExc], dir.entries)
             out == [raised |-> loop.raised, vector_db |-> vdb,
                     documents |-> loop.documents, console |-> loop.console]
         IN  IF loop.raised # NoExc THEN out
             ELSE IF NoDocuments(loop.documents)
             THEN [out EXCEPT !.raised = Exc("ValueError", "No valid documents found!")]
             ELSE IF index # NoExc
             THEN [out EXCEPT !.raised = index]
             ELSE [out EXCEPT
                     !.vector_db = Chroma(split_documents(loop.documents)),
                     !.console = Append(@, Msg("documents_indexed", ""))]

(* ------------------ DocumentChatbot.answer_question ------------------- *)
\* bool(self.vector_db): None is false; a Chroma store has __len__, so it is
\* true exactly when it holds an entry
Truthy(vdb) == vdb.kind = "Chroma" /\ Len(vdb.chunks) > 0

\* mutant: the guard is missing
NotLoaded_Never(vdb) == FALSE

\* if not self.vector_db (line 132)
NotLoaded(vdb) == ~Truthy(vdb)

\* doc.metadata.get('source', 'Unknown source')
MetadataSource(doc) ==
    IF "source" \in DOMAIN doc.metadata THEN doc.metadata.source
    ELSE <<"Unknown source">>

\* page_content[:250] + ('...' if len(page_content) > 250 else '')
Preview(text) ==
    SubSeq(text, 1, Min(Len(text), PreviewLen))
    \o (IF Len(text) > PreviewLen THEN <<".", ".", ".">> ELSE <<>>)

\* mutant: a list that is appended to instead of a dict keyed by source
DictSet_Append(d, item) == Append(d, item)

\* unique_sources[source] = {...} on an insertion-ordered dict, kept as the
\* sequence of its values: a present key keeps its place and takes the new
\* value, a new key goes to the end
DictSet(d, item) ==
    IF \E i \in 1..Len(d) : d[i].source = item.source
    THEN [i \in 1..Len(d) |-> IF d[i].source = item.source THEN item ELSE d[i]]
    ELSE Append(d, item)

\* the loop of lines 154-158 and list(unique_sources.values())
RECURSIVE UniqueSources(_, _)
UniqueSources(d, docs) ==
    IF docs = <<>> THEN d
    ELSE UniqueSources(
            DictSet(d, [source |-> MetadataSource(Head(docs)),
                        content |-> Preview(Head(docs).page_content)]),
            Tail(docs))

\* the retriever's answer: at most k chunks of the store, no chunk twice, in
\* any order (the similarity ranking is the environment's)
RECURSIVE IndexSeqs(_, _)
IndexSeqs(n, len) ==
    IF len = 0 THEN { <<>> }
    ELSE LET shorter == IndexSeqs(n, len - 1) IN
         shorter \cup
         { Append(s, i) : s \in { t \in shorter : Len(t) = len - 1 }, i \in 1..n }

Retrievals(vdb) ==
    LET n == Len(vdb.chunks)
        picks == { s \in IndexSeqs(n, Min(Min(RetrieverK, MaxRetrieved), n)) :
                     \A i, j \in 1..Len(s) : i # j => s[i] # s[j] }
    IN  { [i \in 1..Len(s) |-> vdb.chunks[s[i]]] : s \in picks }

\* where the body of the try block (lines 136-160) can stop
Faults == { NoExc,
            Exc("RetrieverError", "as_retriever"),
            Exc("ChainError", "from_chain_type"),
            Exc("OllamaError", "invoke"),
            Exc("KeyError", "source_documents"),
            KeyboardInterrupt }

\* what the libraries do during one answer_question call
AnswerEnvs(vdb) ==
    { [fault |-> f, result |-> "generated text", source_documents |-> r] :
        f \in Faults, r \in Retrievals(vdb) }

\* mutant: no handler, the exception leaves answer_question
AnswerCatches_Nothing(e) == FALSE

\* mutant: a bare except, which also swallows KeyboardInterrupt
AnswerCatches_Bare(e) == e.type # "None"

\* except Exception (line 162)
AnswerCatches(e) == IsException(e)

\* answer_question(question): [raised, answer, sources, console, invoked]
\* invoked: whether the retriever / QA chain / LLM was touched
answer_question(vdb, question, e) ==
    IF NotLoaded(vdb)
    THEN [raised |-> NoExc, answer |-> "Documents not loaded properly.",
          sources |-> <<>>, console |-> <<>>, invoked |-> FALSE]
    ELSE IF e.fault = NoExc
    THEN [raised |-> NoExc, answer |-> e.result,
          sources |-> UniqueSources(<<>>, e.source_documents),
          console |-> <<>>, invoked |-> TRUE]
    ELSE IF AnswerCatches(e.fault)
    THEN [raised |-> NoExc,
          answer |-> "Sorry, I encountered an error processing your question.",
          sources |-> <<>>,
          console |-> <<Msg("error_processing_question", e.fault.msg)>>,
          invoked |-> TRUE]
    ELSE [raised |-> e.fault, answer |-> "", sources |-> <<>>,
          console |-> <<>>, invoked |-> TRUE]

(* ------------------------------- main --------------------------------- *)
\* what the environment did in a step: the library call the step reached and
\* what that call raised
Env(step, raises, status, line, retrieved) ==
    [step |-> step, raises |-> raises, status |-> status, line |-> line,
     retrieved |-> retrieved]

\* the lines a user may type
Lines ==
    { <<"e", "x", "i", "t">>, <<"E", "X", "I", "T">>, <<"Q", "u", "i", "t">>,
      <<"s", "A", "i", "R">>, <<"e", "x", "i", "t", " ">>, <<"h", "i", "?">> }

\* what prompt(...) does: returns a line or raises
PromptOutcomes ==
    { [raises |-> NoExc, line |-> l] : l \in Lines }
    \cup { [raises |-> Exc("EOFError", "end of input"), line |-> <<>>],
           [raises |-> KeyboardInterrupt, line |-> <<>>] }

\* what rendering the panels (lines 201-211) does
DisplayOutcomes ==
    { NoExc, Exc("MarkupError", "answer panel"),
      Exc("MarkupError", "sources panel"), KeyboardInterrupt }

\* mutant: the comparison without .lower()
IsExit_CaseSensitive(line) ==
    line \in { <<"e", "x", "i", "t">>, <<"q", "u", "i", "t">>,
               <<"s", "a", "i", "r">> }

\* user_input.lower() in ('exit', 'quit', 'sair')  (line 196)
IsExit(line) ==
    lower(line) \in { <<"e", "x", "i", "t">>, <<"q", "u", "i", "t">>,
                      <<"s", "a", "i", "r">> }

\* except KeyboardInterrupt (line 214)
ChatCatchesInterrupt(e) == e.type = "KeyboardInterrupt"
\* mutant: no per-question handler in the loop
ChatCatchesException_Nothing(e) == FALSE

\* mutant: end of input is left to the outer handler
ChatCatchesException_NotEOF(e) == IsException(e) /\ e.type # "EOFError"

\* except Exception (line 217)
ChatCatchesException(e) == IsException(e)
\* except Exception (line 221)
MainCatches(e) == IsException(e)

\* an exception e leaves the outer try block (lines 221-224): what is
\* printed after `printed`, and what leaves main()
Unwind(e, printed) ==
    IF MainCatches(e)
    THEN [console |-> printed \o <<Msg("critical_failure", e.msg),
                                   Msg("shutdown_complete", "")>>,
          escaped |-> NoExc]
    ELSE [console |-> Append(printed, Msg("shutdown_complete", "")),
          escaped |-> e]

\* an exception e is raised in the loop body (lines 193-219): where the
\* loop goes, what is printed after `printed`, and what leaves main()
InLoop(e, printed) ==
    IF ChatCatchesInterrupt(e)
    THEN [pc |-> "terminated",
          console |-> printed \o <<Msg("shutting_down", ""),
                                   Msg("shutdown_complete", "")>>,
          escaped |-> NoExc]
    ELSE IF ChatCatchesException(e)
    THEN [pc |-> "awaiting",
          console |-> Append(printed, Msg("chat_error", e.msg)),
          escaped |-> NoExc]
    ELSE [pc |-> "terminated"] @@ Unwind(e, printed)

NoLine == <<>>
NoAnswer == ""

Init ==
    /\ pc = "check"
    /\ folder \in Folders
    /\ called = {}
    /\ vector_db = Unset
    /\ documents = <<>>
    /\ user_input = NoLine
    /\ answer = NoAnswer
    /\ sources = <<>>
    /\ console = <<>>
    /\ env = Env("start", NoExc, 0, NoLine, <<>>)
    /\ raised = NoExc
    /\ escaped = NoExc
    /\ errors = 0

\* lines 175-181: the banner, the health check, and the early return
Health ==
    /\ pc = "check"
    /\ \E o \in HealthOutcomes :
        /\ env' = Env("check_ollama", o.raises, o.status, NoLine, <<>>)
        /\ IF check_ollama(o)
           THEN /\ pc' = "construct"
                /\ console' = <<Msg("banner", "")>>
           ELSE /\ pc' = "terminated"
                /\ console' = <<Msg("banner", ""), Msg("ollama_not_running", ""),
                                Msg("please_run", ""), Msg("ollama_serve", "")>>
    /\ called' = called \cup {"check_ollama"}
    /\ raised' = NoExc
    /\ UNCHANGED <<folder, vector_db, documents, user_input, answer, sources,
                   escaped, errors>>

\* line 184: bot = DocumentChatbot()
Construct ==
    /\ pc = "construct"
    /\ \E o \in InitOutcomes :
        LET r == DocumentChatbot(o) IN
        /\ env' = Env("DocumentChatbot", o, 0, NoLine, <<>>)
        /\ raised' = r.raised
        /\ vector_db' = r.vector_db
        /\ IF r.raised = NoExc
           THEN /\ pc' = "load"
                /\ console' = r.console
                /\ escaped' = escaped
           ELSE /\ pc' = "terminated"
                /\ console' = Unwind(r.raised, r.console).console
                /\ escaped' = Unwind(r.raised, r.console).escaped
    /\ called' = called \cup {"DocumentChatbot"}
    /\ UNCHANGED <<folder, documents, user_input, answer, sources, errors>>

\* lines 186-190: load the documents, announce the chat
Load ==
    /\ pc = "load"
    /\ \E o \in IndexOutcomes :
        LET r == load_documents(vector_db, folder, o)
            printed == <<Msg("loading_documents", "")>> \o r.console
        IN
        /\ env' = Env("load_documents", IF r.raised = o THEN o ELSE NoExc, 0,
                      NoLine, <<>>)
        /\ raised' = r.raised
        /\ vector_db' = r.vector_db
        /\ documents' = r.documents
        /\ IF r.raised = NoExc
           THEN /\ pc' = "awaiting"
                /\ console' = printed \o <<Msg("ready", ""), Msg("chat_mode", "")>>
                /\ escaped' = escaped
           ELSE /\ pc' = "terminated"
                /\ console' = Unwind(r.raised, printed).console
                /\ escaped' = Unwind(r.raised, printed).escaped
    /\ called' = called \cup {"load_documents"}
    /\ UNCHANGED <<folder, user_input, answer, sources, errors>>

\* lines 194-197: read a line; an exit keyword breaks out of the loop
Prompt ==
    /\ pc = "awaiting"
    /\ \E o \in PromptOutcomes :
        /\ env' = Env("prompt", o.raises, 0, o.line, <<>>)
        /\ raised' = o.raises
        /\ IF o.raises # NoExc
           THEN /\ IsException(o.raises) => errors < MaxErrors
                /\ pc' = InLoop(o.raises, <<>>).pc
                /\ console' = InLoop(o.raises, <<>>).console
                /\ escaped' = InLoop(o.raises, <<>>).escaped
                /\ errors' = IF pc' = "awaiting" THEN errors + 1 ELSE errors
                /\ user_input' = user_input
           ELSE IF IsExit(o.line)
           THEN /\ pc' = "terminated"
                /\ console' = <<Msg("shutdown_complete", "")>>
                /\ user_input' = o.line
                /\ UNCHANGED <<escaped, errors>>
           ELSE /\ pc' = "processing"
                /\ console' = <<>>
                /\ user_input' = o.line
                /\ UNCHANGED <<escaped, errors>>
    /\ called' = called \cup {"prompt"}
    /\ UNCHANGED <<folder, vector_db, documents, answer, sources>>

\* line 199: answer, sources = bot.answer_question(user_input)
Process ==
    /\ pc = "processing"
    /\ \E e \in AnswerEnvs(vector_db) :
        LET r == answer_question(vector_db, user_input, e) IN
        /\ (IsException(e.fault) /\ r.invoked) => errors < MaxErrors
        /\ env' = IF r.invoked
                  THEN Env("answer_question", e.fault, 0, user_input,
                           e.source_documents)
                  ELSE Env("answer_question", NoExc, 0, user_input, <<>>)
        /\ raised' = r.raised
        /\ called' = called \cup {"answer_question"}
                       \cup (IF r.invoked THEN {"qa_chain"} ELSE {})
        /\ IF r.raised = NoExc
           THEN /\ pc' = "displaying"
                /\ answer' = r.answer
                /\ sources' = r.sources
                /\ console' = r.console
                /\ escaped' = escaped
                /\ errors' = IF IsException(e.fault) /\ r.invoked
                             THEN errors + 1 ELSE errors
                /\ user_input' = user_input
           ELSE /\ pc' = InLoop(r.raised, r.console).pc
                /\ console' = InLoop(r.raised, r.console).console
                /\ escaped' = InLoop(r.raised, r.console).escaped
                /\ errors' = IF pc' = "awaiting" THEN errors + 1 ELSE errors
                /\ user_input' = IF pc' = "awaiting" THEN NoLine ELSE user_input
                /\ UNCHANGED <<answer, sources>>
    /\ UNCHANGED <<folder, vector_db, documents>>

\* the panels of lines 201-211, in print order
Panels(ans, srcs, o) ==
    IF o = Exc("MarkupError", "answer panel") THEN <<>>
    ELSE IF srcs = <<>> THEN <<Msg("answer_panel", ans)>>
    ELSE IF o = NoExc
    THEN <<Msg("answer_panel", ans), Msg("sources_panel", "")>>
    ELSE <<Msg("answer_panel", ans)>>

\* lines 201-211: show the answer, and the sources when there are any; the
\* iteration ends and its locals are dead
Display ==
    /\ pc = "displaying"
    /\ \E o \in DisplayOutcomes :
        /\ o = Exc("MarkupError", "sources panel") => sources # <<>>
        /\ IsException(o) => errors < MaxErrors
        /\ env' = Env("display", o, 0, user_input, <<>>)
        /\ raised' = o
        /\ IF o = NoExc
           THEN /\ pc' = "awaiting"
                /\ console' = Panels(answer, sources, o)
                /\ UNCHANGED <<escaped, errors>>
           ELSE /\ pc' = InLoop(o, Panels(answer, sources, o)).pc
                /\ console' = InLoop(o, Panels(answer, sources, o)).console
                /\ escaped' = InLoop(o, Panels(answer, sources, o)).escaped
                /\ errors' = IF pc' = "awaiting" THEN errors + 1 ELSE errors
    /\ user_input' = IF pc' = "awaiting" THEN NoLine ELSE user_input
    /\ answer' = IF pc' = "awaiting" THEN NoAnswer ELSE answer
    /\ sources' = IF pc' = "awaiting" THEN <<>> ELSE sources
    /\ UNCHANGED <<folder, called, vector_db, documents>>

Next == Health \/ Construct \/ Load \/ Prompt \/ Process \/ Display

Spec == Init /\ [][Next]_vars

(* --------------- DocumentChatbot driven by any caller ----------------- *)
\* A constructed DocumentChatbot whose methods are called in any order, as a
\* caller other than main() may.  After a call (pc = "returned") answer,
\* sources, console and raised hold what it returned, printed and raised;
\* the caller then drops them and is free to call again (pc = "idle").
InitBot ==
    /\ pc = "idle"
    /\ folder \in Folders
    /\ called = {"DocumentChatbot"}
    /\ vector_db = DocumentChatbot(NoExc).vector_db
    /\ documents = <<>>
    /\ user_input = NoLine
    /\ answer = NoAnswer
    /\ sources = <<>>
    /\ console = <<>>
    /\ env = Env("idle", NoExc, 0, NoLine, <<>>)
    /\ raised = NoExc
    /\ escaped = NoExc
    /\ errors = 0

\* bot.load_documents(DOCS_PATH)
CallLoadDocuments ==
    /\ pc = "idle"
    /\ \E o \in IndexOutcomes :
        LET r == load_documents(vector_db, folder, o) IN
        /\ env' = Env("load_documents", IF r.raised = o THEN o ELSE NoExc, 0,
                      NoLine, <<>>)
        /\ raised' = r.raised
        /\ vector_db' = r.vector_db
        /\ documents' = r.documents
        /\ console' = r.console
    /\ pc' = "returned"
    /\ called' = called \cup {"load_documents"}
    /\ UNCHANGED <<folder, user_input, answer, sources, escaped, errors>>

Questions == { <<"h", "i", "?">>, <<"e", "x", "i", "t">> }

\* bot.answer_question(question)
CallAnswerQuestion ==
    /\ pc = "idle"
    /\ \E q \in Questions, e \in AnswerEnvs(vector_db) :
        LET r == answer_question(vector_db, q, e) IN
        /\ env' = IF r.invoked
                  THEN Env("answer_question", e.fault, 0, q, e.source_documents)
                  ELSE Env("answer_question", NoExc, 0, q, <<>>)
        /\ raised' = r.raised
        /\ user_input' = q
        /\ answer' = r.answer
        /\ sources' = r.sources
        /\ console' = r.console
        /\ called' = called \cup {"answer_question"}
                       \cup (IF r.invoked THEN {"qa_chain"} ELSE {})
    /\ pc' = "returned"
    /\ UNCHANGED <<folder, vector_db, documents, escaped, errors>>

\* the caller is done with the results of the call
Return ==
    /\ pc = "returned"
    /\ pc' = "idle"
    /\ called' = {"DocumentChatbot"}
    /\ documents' = <<>>
    /\ user_input' = NoLine
    /\ answer' = NoAnswer
    /\ sources' = <<>>
    /\ console' = <<>>
    /\ env' = Env("idle", NoExc, 0, NoLine, <<>>)
    /\ raised' = NoExc
    /\ UNCHANGED <<folder, vector_db, escaped, errors>>

NextBot == CallLoadDocuments \/ CallAnswerQuestion \/ Return

SpecBot == InitBot /\ [][NextBot]_vars

(* ============================ the claims ============================== *)
(* The environment's part of a step is read from env, the program's part  *)
(* from the other variables, so each formula compares what the program    *)
(* did with what happened to it.                                          *)

Failed(e) == IsException(e)
Interrupted(e) == e.type = "KeyboardInterrupt"

\* the line is the word, letter by letter, in either case
Spells(line, lo, up) ==
    /\ Len(line) = Len(lo)
    /\ \A i \in 1..Len(lo) : line[i] = lo[i] \/ line[i] = up[i]

ExitWord(line) ==
    \/ Spells(line, <<"e", "x", "i", "t">>, <<"E", "X", "I", "T">>)
    \/ Spells(line, <<"q", "u", "i", "t">>, <<"Q", "U", "I", "T">>)
    \/ Spells(line, <<"s", "a", "i", "r">>, <<"S", "A", "I", "R">>)

Kinds(printed) == { printed[i].kind : i \in 1..Len(printed) }

EndsWith(printed, tail) ==
    /\ Len(printed) >= Len(tail)
    /\ SubSeq(printed, Len(printed) - Len(tail) + 1, Len(printed)) = tail

LoopSteps == {"prompt", "answer_question", "display"}

NoInterruptedFile == \A i \in 1..Len(folder.entries) :
                        ~Interrupted(folder.entries[i].result.raises)

\* the entries whose loader returned
Readable == { i \in 1..Len(folder.entries) :
                folder.entries[i].result.raises = NoExc }

DocsOf(i) == { k \in 1..Len(documents) :
                 documents[k].metadata.source = <<DOCS_PATH, folder.entries[i].file.name>> }

NothingReadable == \A i \in Readable : folder.entries[i].result.ndocs = 0

\* C1: when the health check fails (the request raises, times out, or the
\* status is not 200) main prints the 'Ollama is not running' instruction
\* and is over: no DocumentChatbot, no load_documents, no prompt.
C1_BackendUnreachableAborts ==
    (env.step = "check_ollama" /\ ~(env.raises = NoExc /\ env.status = 200)) =>
        /\ pc = "terminated"
        /\ console = <<Msg("banner", ""), Msg("ollama_not_running", ""),
                       Msg("please_run", ""), Msg("ollama_serve", "")>>
        /\ called = {"check_ollama"}
        /\ vector_db = Unset
        /\ escaped = NoExc

C1_Witness ==
    /\ env.step = "check_ollama"
    /\ env.raises.type = "Timeout"
    /\ pc = "terminated"
    /\ "ollama_not_running" \in Kinds(console)

\* one step of the chat loop, as C2 requires it
C2_Step ==
    /\ (pc = "processing" /\ Failed(env'.raises)) =>
           /\ pc' = "displaying"
           /\ "error_processing_question" \in Kinds(console')
           /\ errors' = errors + 1
    /\ (pc = "displaying" /\ Failed(env'.raises)) =>
           /\ pc' = "awaiting"
           /\ EndsWith(console', <<Msg("chat_error", env'.raises.msg)>>)
           /\ errors' = errors + 1
    /\ (pc = "displaying" /\ ~Interrupted(env'.raises)) => pc' = "awaiting"
    /\ (pc \in {"processing", "displaying"} /\ ~Interrupted(env'.raises)) =>
           (pc' # "terminated" /\ escaped' = NoExc)

C3_AnswerNeverPropagates ==
    (env.step = "answer_question" /\ Failed(env.raises)) =>
        /\ raised = NoExc
        /\ answer = "Sorry, I encountered an error processing your question."
        /\ sources = <<>>
        /\ console = <<Msg("error_processing_question", env.raises.msg)>>
        /\ pc = "displaying"

C3_Witness ==
    /\ env.step = "answer_question"
    /\ env.raises = Exc("KeyError", "source_documents")
    /\ vector_db.kind = "Chroma"
    /\ Len(env.retrieved) > 0
    /\ pc = "displaying"

\* the startup failures C4 is about, as the environment produced them
C4_StartupFailure ==
    \/ env.step = "DocumentChatbot" /\ Failed(env.raises)
    \/ /\ env.step = "load_documents"
       /\ \/ ~folder.exists
          \/ NoInterruptedFile /\ NothingReadable
          \/ NoInterruptedFile /\ Failed(env.raises)

\* C4: a startup failure after the health check (the models cannot be
\* built, the folder is missing, no document was loaded, indexing fails) is
\* fatal: no prompt is ever shown and no question answered, the failure is
\* printed as a critical failure before the shutdown line, the vector store
\* stays unset or None with nothing indexed, and nothing leaves main().
C4_StartupFailureIsFatal ==
    C4_StartupFailure =>
        /\ pc = "terminated"
        /\ called \cap {"prompt", "answer_question", "qa_chain"} = {}
        /\ Failed(raised)
        /\ EndsWith(console, <<Msg("critical_failure", raised.msg),
                               Msg("shutdown_complete", "")>>)
        /\ vector_db \in {Unset, None}
        /\ "documents_indexed" \notin Kinds(console)
        /\ escaped = NoExc
        /\ (env.step = "load_documents" /\ ~folder.exists) =>
               (raised.msg = "Folder not found" /\ documents = <<>>)
        /\ (env.step = "load_documents" /\ folder.exists
              /\ NoInterruptedFile /\ NothingReadable) =>
               raised.msg = "No valid documents found!"

C4_Witness ==
    /\ env.step = "load_documents"
    /\ folder.exists
    /\ Len(folder.entries) = 2
    /\ NoInterruptedFile
    /\ NothingReadable
    /\ pc = "terminated"
    /\ raised.msg = "No valid documents found!"

\* C5: a line that is 'exit', 'quit' or 'sair' in any letter case ends the
\* loop at once: pc goes from awaiting straight to terminated, the question
\* is not passed to answer_question, the shutdown line is printed, and this
\* is so whatever was asked or went wrong before.
C5_ExitKeywordTerminates ==
    (env.step = "prompt" /\ env.raises = NoExc /\ ExitWord(env.line)) =>
        /\ pc = "terminated"
        /\ user_input = env.line
        /\ console = <<Msg("shutdown_complete", "")>>
        /\ escaped = NoExc

C5_Witness ==
    /\ env.step = "prompt"
    /\ env.line = <<"s", "A", "i", "R">>
    /\ pc = "terminated"
    /\ "answer_question" \in called
    /\ errors > 0

\* C6: in load_documents a file whose loader raises is reported and skipped:
\* every entry of the folder gets its status line, in order; the documents
\* kept are exactly those of the entries whose loader returned; and the call
\* fails with 'No valid documents found!' exactly when there are none.
C6_PerFileErrorsAreSkipped ==
    (env.step = "load_documents" /\ folder.exists /\ NoInterruptedFile) =>
        /\ Len(console) > Len(folder.entries)
        /\ \A i \in 1..Len(folder.entries) :
              /\ console[i + 1].arg = folder.entries[i].file.name
              /\ (console[i + 1].kind = "file_error") <=>
                     Failed(folder.entries[i].result.raises)
              /\ console[i + 1].kind \in {"file_ok", "file_generic", "file_error"}
        /\ \A i \in 1..Len(folder.entries) :
              Cardinality(DocsOf(i)) = IF i \in Readable
                                       THEN folder.entries[i].result.ndocs
                                       ELSE 0
        /\ \A k \in 1..Len(documents) : \E i \in Readable : k \in DocsOf(i)
        /\ (raised = Exc("ValueError", "No valid documents found!")) <=>
               (documents = <<>>)
        /\ env.raises = NoExc => (raised = NoExc <=> documents # <<>>)

C6_Witness ==
    /\ env.step = "load_documents"
    /\ Len(folder.entries) = 3
    /\ Failed(folder.entries[1].result.raises)
    /\ folder.entries[2].result.raises = NoExc
    /\ Failed(folder.entries[3].result.raises)
    /\ Len(documents) = 2
    /\ Len(vector_db.chunks) = 2
    /\ console[3] = Msg("file_ok", "SCAN.PDF")
    /\ pc = "awaiting"

\* C7: answer_question on a bot whose vector store is still None returns
\* the 'Documents not loaded properly.' answer with no sources, raises
\* nothing, prints nothing and touches neither retriever nor model.
C7_NotLoadedSentinel ==
    (env.step = "answer_question" /\ vector_db = None) =>
        /\ answer = "Documents not loaded properly."
        /\ sources = <<>>
        /\ raised = NoExc
        /\ console = <<>>
        /\ "qa_chain" \notin called

C7_Witness ==
    /\ pc = "returned"
    /\ env.step = "answer_question"
    /\ vector_db = None
    /\ answer = "Documents not loaded properly."
    /\ user_input = <<"h", "i", "?">>

\* the source paths among the chunks the retriever returned
RetrievedPaths == { env.retrieved[i].metadata.source : i \in 1..Len(env.retrieved) }

\* C8: the sources of a successful answer hold one entry for each source
\* path among the retrieved chunks, and nothing else.
C8_OneSourcePerPath ==
    (env.step = "answer_question" /\ env.raises = NoExc
       /\ answer = "generated text") =>
        /\ \A path \in RetrievedPaths :
              Cardinality({ j \in 1..Len(sources) : sources[j].source = path }) = 1
        /\ \A j \in 1..Len(sources) : sources[j].source \in RetrievedPaths

C8_Witness ==
    /\ env.step = "answer_question"
    /\ answer = "generated text"
    /\ Len(env.retrieved) = 2
    /\ env.retrieved[1].metadata.source = env.retrieved[2].metadata.source
    /\ Len(sources) = 1

\* C9: an interrupt while the loop awaits input, processes or displays ends
\* the session with 'Shutting down...': no chat error is printed, the loop
\* does not go on, and no exception leaves main().
C9_InterruptTerminates ==
    (env.step \in LoopSteps /\ Interrupted(env.raises)) =>
        /\ pc = "terminated"
        /\ EndsWith(console, <<Msg("shutting_down", ""),
                               Msg("shutdown_complete", "")>>)
        /\ "chat_error" \notin Kinds(console)
        /\ "critical_failure" \notin Kinds(console)
        /\ escaped = NoExc

C9_Witness ==
    /\ env.step = "answer_question"
    /\ Interrupted(env.raises)
    /\ pc = "terminated"
    /\ "shutting_down" \in Kinds(console)

====
